---- MODULE Spec2Model ----
(***************************************************************************)
(* The snow particle engine of the animated house screen.                  *)
(*                                                                         *)
(* Three variants of SnowDayEffect are modelled by one state machine:      *)
(*   "directional"  src/components/weather/SnowDayEffect.tsx               *)
(*   "cloud"        src/unnamed/part_001 (same engine, other constants)    *)
(*   "fade"         src/unnamed/part_000 lines 39-288 (fade boundary)      *)
(*                                                                         *)
(* Numbers.  Math.random() returns k / RandDen for k in 0 .. RandDen-1.    *)
(* Sizes, opacities, rotations and speeds are held in units of 1/Den,      *)
(* positions in units of 1/PosDen pixel, times in milliseconds.            *)
(*                                                                         *)
(* Time.  Particles share no state, so every particle carries its own      *)
(* clock: Advance(i) moves particle i to the next instant at which one of  *)
(* its animations or timers ends.  The order of the events of one particle *)
(* is the order of their due times; the events of different particles      *)
(* interleave freely.                                                      *)
(*                                                                         *)
(* The engine, the clouds of the cloud variant and the host screen share   *)
(* no state either.  Spec runs the handlers of the engine and leaves the   *)
(* other two as constructed; CloudSpec runs the clouds, HostSpec and       *)
(* GradientSpec run the host screen (src/app/animatedhouse.tsx).           *)
(***************************************************************************)
EXTENDS Integers, Sequences, FiniteSets, TLC

VARIABLES
    variant,     \* which SnowDayEffect file is running
    window,      \* Dimensions.get("window")
    counts,      \* SMALL_COUNT, MEDIUM_COUNT, LARGE_COUNT, XLARGE_COUNT
    phase,       \* "constructed", then "mounted" by the mount effect,
                 \* "unmounted" by its cleanup, "remounted" when the
                 \* effect runs again on the same refs (strict mode)
    snowflakes,  \* the useRef'd array of SnowflakeData, with the state of
                 \* the animations the framework runs on its values
    ev,          \* the last handler that ran and the particle it ran for
    clouds,      \* the Cloud components of the cloud variant: their moveX
                 \* and moveY values, timers and animations
    host         \* the AnimatedHouse screen: its React state, the closure
                 \* of its mount effect, its interval and its crossfade

vars == <<variant, window, counts, phase, snowflakes, ev, clouds, host>>

-----------------------------------------------------------------------------
(* Bounds and units *)

RandDen == 3

\* the frames of one crossfade: the instants at which it can be observed
\* or interrupted
CrossfadeFrames == 2

\* the calls of updateGradients from outside the time check in one run
MaxCalls == 2

Rand == 0 .. (RandDen - 1)
\* the two ends of the random grid: 0 and the largest value below 1
RandEnds == {0, RandDen - 1}

Den == 100 * RandDen
PosDen == 7 * Den

Max(a, b) == IF a >= b THEN a ELSE b
Min(a, b) == IF a <= b THEN a ELSE b

Variants == {"directional", "cloud", "fade"}

\* window sizes the host may report: one below the floor, one above it
Windows == {[width |-> 320, height |-> 568], [width |-> 480, height |-> 900]}

\* the flake distribution, scaled down to one flake of one size class
Distributions ==
    { [small |-> 1, medium |-> 0, large |-> 0, xlarge |-> 0],
      [small |-> 0, medium |-> 1, large |-> 0, xlarge |-> 0],
      [small |-> 0, medium |-> 0, large |-> 1, xlarge |-> 0],
      [small |-> 0, medium |-> 0, large |-> 0, xlarge |-> 1] }

-----------------------------------------------------------------------------
(* Program constants *)

EXTRA_LARGE_SIZE == 20
MIN_OPACITY == 70 * RandDen
MAX_OPACITY == 90 * RandDen
FADE_DURATION == 1500
RECYCLE_DELAY == 1600
SWAY_DURATION == 2000
CROSSFADE_DURATION == 700
CHECK_INTERVAL == 60000

SNOWFLAKE_COUNT == counts.small + counts.medium + counts.large + counts.xlarge
Ids == 0 .. (SNOWFLAKE_COUNT - 1)

safeHeight == Max(window.height, 800)

\* safeWidth without the floor: the width the host reports
safeWidthReported == window.width

safeWidth == Max(window.width, 400)

\* size >= EXTRA_LARGE_SIZE * 0.8
IsExtraLarge(size) == size * 10 >= EXTRA_LARGE_SIZE * 8 * Den

\* the three-way split of one Math.random() draw into a drift direction
DriftOf(k) ==
    IF k * 100 < 33 * RandDen THEN "left"
    ELSE IF k * 100 < 66 * RandDen THEN "right"
    ELSE "sway"

\* the size class the factory assigns to index i
ClassOf(i) ==
    IF i < counts.small THEN "small"
    ELSE IF i < counts.small + counts.medium THEN "medium"
    ELSE IF i < counts.small + counts.medium + counts.large THEN "large"
    ELSE "xlarge"

-----------------------------------------------------------------------------
(* Particle Factory *)

\* SizeOf with the small range one unit too wide
SizeOfWide(i, k) ==
    IF i < counts.small THEN 1 * Den + (k * 3 * Den) \div RandDen
    ELSE IF i < counts.small + counts.medium THEN 4 * Den + (k * 3 * Den) \div RandDen
    ELSE IF i < counts.small + counts.medium + counts.large
         THEN 8 * Den + (k * 2 * Den) \div RandDen
    ELSE EXTRA_LARGE_SIZE * ((8 * Den) \div 10 + (k * 4 * Den) \div (10 * RandDen))

\* size of flake i from the draw k (directional and cloud variants)
SizeOf(i, k) ==
    IF i < counts.small THEN 1 * Den + (k * 2 * Den) \div RandDen
    ELSE IF i < counts.small + counts.medium THEN 4 * Den + (k * 3 * Den) \div RandDen
    ELSE IF i < counts.small + counts.medium + counts.large
         THEN 8 * Den + (k * 2 * Den) \div RandDen
    ELSE EXTRA_LARGE_SIZE * ((8 * Den) \div 10 + (k * 4 * Den) \div (10 * RandDen))

\* speedFactor from the size and, for extra large flakes, the draw k
SpeedFactor(v, size, k) ==
    IF IsExtraLarge(size)
        THEN (IF v = "cloud" THEN 140 ELSE 160) * RandDen + (k * (40 * Den)) \div (100 * RandDen)
    ELSE IF size >= 8 * Den THEN 1 * Den + (5 * (size - 8 * Den)) \div (10 * 2)
    ELSE IF size >= 4 * Den THEN 70 * RandDen + (3 * (size - 4 * Den)) \div (10 * 3)
    ELSE (IF v = "cloud" THEN 60 ELSE 40) * RandDen + (3 * (size - 1 * Den)) \div (10 * 2)

\* SpeedOf with a jitter of -3 to +3
SpeedOfWideJitter(v, size, kFactor, kJitter) ==
    6 * SpeedFactor(v, size, kFactor) + ((kJitter * 6 * Den) \div RandDen - 3 * Den)

\* speed = 6 * speedFactor + (Math.random() * 1.0 - 0.5)
SpeedOf(v, size, kFactor, kJitter) ==
    6 * SpeedFactor(v, size, kFactor) + ((kJitter * Den) \div RandDen - Den \div 2)

\* InitialOpacity scaling the draw by MAX_OPACITY instead of the band width
InitialOpacityWide(size, k) ==
    IF IsExtraLarge(size) THEN Den \div 2
    ELSE MIN_OPACITY + (MAX_OPACITY * k) \div RandDen

\* flakeOpacity at generation
InitialOpacity(size, k) ==
    IF IsExtraLarge(size) THEN Den \div 2
    ELSE MIN_OPACITY + ((MAX_OPACITY - MIN_OPACITY) * k) \div RandDen

\* isElliptical = size < 8 ? Math.random() < 0.3 : false
EllipticalOf(size, k) ==
    IF size < 8 * Den THEN k * 10 < 3 * RandDen ELSE FALSE

\* the branch of the speedFactor tests a size takes
SpeedTier(size) ==
    IF IsExtraLarge(size) THEN "xlarge"
    ELSE IF size >= 8 * Den THEN "large"
    ELSE IF size >= 4 * Den THEN "medium"
    ELSE "small"

\* blurFactor of the Snowflake component: 0.1, 0.2, 0.8 or 1.0 by size
blurFactor(size) ==
    IF size <= 3 * Den THEN Den \div 10
    ELSE IF size <= 7 * Den THEN (2 * Den) \div 10
    ELSE IF size * 10 <= EXTRA_LARGE_SIZE * 8 * Den THEN (8 * Den) \div 10
    ELSE Den

\* the blur tier each size class is to get, as the branches are labelled
BlurOfClass(class) ==
    IF class = "small" THEN Den \div 10
    ELSE IF class = "medium" THEN (2 * Den) \div 10
    ELSE IF class = "large" THEN (8 * Den) \div 10
    ELSE Den

\* applyBlur = size >= 8
applyBlur(size) == size >= 8 * Den

\* the animations the framework runs on a flake's values: none at first
NoAnimation ==
    [ fallRem |-> 0, fallFrom |-> 0, fallTo |-> 0, fallDur |-> 0,
      horRem |-> 0, horFrom |-> 0, horTo |-> 0, horDur |-> 0, horNext |-> << >>,
      callbacks |-> 0,
      fadeRem |-> 0, fadeFrom |-> 0,
      timers |-> << >> ]

\* the draws the factory makes for one flake
Draws ==
    [ size : RandEnds, drift : Rand, factor : RandEnds, jitter : RandEnds,
      opacity : RandEnds, elliptical : RandEnds, x : RandEnds, y : RandEnds,
      rotation : RandEnds ]

\* InitialPosition without the factor -1 of the start height
InitialPositionBelow(d) ==
    [ x |-> ((d.x * safeWidth) * PosDen) \div RandDen,
      y |-> ((d.y * safeHeight) * PosDen) \div RandDen ]

\* the position a flake is generated at:
\* x: Math.random() * safeWidth, y: Math.random() * safeHeight * -1
InitialPosition(d) ==
    [ x |-> ((d.x * safeWidth) * PosDen) \div RandDen,
      y |-> (((d.y * safeHeight) * PosDen) \div RandDen) * (-1) ]

\* one element of the snowflakes array (directional and cloud variants);
\* speedFactor, a local of the factory, is kept with the flake it was
\* computed for
DriftFlake(v, i, d) ==
    LET size == SizeOf(i, d.size) IN
    [ id |-> i,
      position |-> InitialPosition(d),
      size |-> size,
      opacity |-> InitialOpacity(size, d.opacity),
      rotation |-> (d.rotation * 360 * Den) \div RandDen,
      speedFactor |-> SpeedFactor(v, size, d.factor),
      speed |-> SpeedOf(v, size, d.factor, d.jitter),
      isElliptical |-> EllipticalOf(size, d.elliptical),
      active |-> TRUE,
      animationRef |-> "null",
      driftDirection |-> DriftOf(d.drift),
      anim |-> NoAnimation ]

\* Math.max(0.3, Math.min(0.6, Math.random() * 0.3 + 0.3))
BandOpacity(k) ==
    Max(30 * RandDen, Min(60 * RandDen, (k * 30 * RandDen) \div RandDen + 30 * RandDen))

\* one element of the snowflakes array (fade variant); it has no drift
\* direction field and always wobbles, which is the "sway" pattern
FadeFlake(i, d) ==
    [ id |-> i,
      position |-> InitialPosition(d),
      size |-> Max(2 * Den, Min(7 * Den, (d.size * 5 * Den) \div RandDen + 2 * Den)),
      opacity |-> BandOpacity(d.opacity),
      rotation |-> (d.rotation * 360 * Den) \div RandDen,
      speed |-> Max(1 * Den, Min(35 * (Den \div 10),
                                 (d.jitter * 25 * (Den \div 10)) \div RandDen + 1 * Den)),
      isElliptical |-> d.elliptical * 10 < 3 * RandDen,
      active |-> TRUE,
      animationRef |-> "null",
      driftDirection |-> "sway",
      anim |-> NoAnimation ]

NewFlake(v, i, d) == IF v = "fade" THEN FadeFlake(i, d) ELSE DriftFlake(v, i, d)

-----------------------------------------------------------------------------
(* Host screen: weather, gradients, crossfade *)

WeatherType ==
    { "sunny_day", "clear_night", "snow_day", "snow_night", "cloudy_day",
      "cloudy_night", "rainy_day", "rainy_night", "partly_cloudy_day",
      "partly_cloudy_night" }

\* the two copies of the screen in animatedhouse.tsx: the first maps the
\* weather to gradients, the second uses the standard gradients for all
HostVersions == {"mapped", "standard"}

skyGradient == <<"#374a61", "#435469">>
floorGradient == <<"#50627b", "#4f71a7">>

\* newSkyGradient of updateGradients
SkyGradientOf(version, weather) ==
    IF version = "standard" THEN skyGradient
    ELSE IF weather = "sunny_day" THEN <<"#87CEEB", "#4f71a7">>
    ELSE IF weather = "clear_night" THEN <<"#0C1221", "#1f2a3a">>
    ELSE IF weather = "snow_day" THEN <<"#859db2", "#8ca5c7">>
    ELSE IF weather = "snow_night" THEN <<"#2a3646", "#1f2a3a">>
    ELSE IF weather = "cloudy_day" THEN <<"#6e8bb2", "#4f71a7">>
    ELSE IF weather = "cloudy_night" THEN <<"#1e2430", "#1f2a3a">>
    ELSE IF weather = "rainy_day" THEN <<"#5a7799", "#4f71a7">>
    ELSE IF weather = "rainy_night" THEN <<"#1a222d", "#1f2a3a">>
    ELSE IF weather = "partly_cloudy_day" THEN <<"#7e96ba", "#4f71a7">>
    ELSE IF weather = "partly_cloudy_night" THEN <<"#232936", "#1f2a3a">>
    ELSE skyGradient

\* newFloorGradient of updateGradients
FloorGradientOf(version, weather) ==
    IF version = "standard" THEN floorGradient
    ELSE IF weather = "sunny_day" THEN <<"#88a6c9", "#4f71a7">>
    ELSE IF weather = "clear_night" THEN <<"#1a2639", "#101825">>
    ELSE IF weather = "snow_day" THEN <<"#7b96bb", "#748fbd">>
    ELSE IF weather = "snow_night" THEN <<"#3a4961", "#293546">>
    ELSE IF weather = "cloudy_day" THEN <<"#6a8cb5", "#3c5a87">>
    ELSE IF weather = "cloudy_night" THEN <<"#1c2938", "#131c28">>
    ELSE IF weather = "rainy_day" THEN <<"#5d7ea0", "#3c5a87">>
    ELSE IF weather = "rainy_night" THEN <<"#192330", "#131c28">>
    ELSE IF weather = "partly_cloudy_day" THEN <<"#7590b3", "#4f71a7">>
    ELSE IF weather = "partly_cloudy_night" THEN <<"#232f42", "#1b2535">>
    ELSE floorGradient

getCurrentWeatherBase(weather) ==
    IF weather \in {"sunny_day", "clear_night"} THEN "sunny"
    ELSE IF weather \in {"snow_day", "snow_night"} THEN "snow"
    ELSE IF weather \in {"cloudy_day", "cloudy_night"} THEN "cloudy"
    ELSE IF weather \in {"rainy_day", "rainy_night"} THEN "rainy"
    ELSE IF weather \in {"partly_cloudy_day", "partly_cloudy_night"}
        THEN "partly_cloudy"
    ELSE "sunny"

\* isDay = currentHour >= 6 && currentHour < 18
IsDay(hour) == hour >= 6 /\ hour < 18

\* newWeather of updateWeatherBasedOnTime: the day or night version of the
\* weather base
TimeWeather(base, isDay) ==
    IF base = "sunny" THEN (IF isDay THEN "sunny_day" ELSE "clear_night")
    ELSE IF base = "snow" THEN (IF isDay THEN "snow_day" ELSE "snow_night")
    ELSE IF base = "cloudy" THEN (IF isDay THEN "cloudy_day" ELSE "cloudy_night")
    ELSE IF base = "rainy" THEN (IF isDay THEN "rainy_day" ELSE "rainy_night")
    ELSE IF base = "partly_cloudy"
        THEN (IF isDay THEN "partly_cloudy_day" ELSE "partly_cloudy_night")
    ELSE (IF isDay THEN "sunny_day" ELSE "clear_night")

\* the screen after its first render: useState and useRef initial values.
\* effectWeather is the weatherCondition the functions called by the mount
\* effect and its interval have closed over; fadeCallback holds the
\* gradients the callback of the running crossfade has closed over;
\* lastCall is the argument of the most recent updateGradients call, calls
\* the number of calls from outside the time check.
HostConstructed(version, hour) ==
    [ phase |-> "constructed",
      version |-> version,
      hour |-> hour,
      weatherCondition |-> "snow_day",
      effectWeather |-> "snow_day",
      visibleFloorGradient |-> floorGradient,
      hiddenFloorGradient |-> floorGradient,
      visibleSkyGradient |-> skyGradient,
      hiddenSkyGradient |-> skyGradient,
      fadeAnim |-> 100,
      fadeRem |-> 0,
      fadeCallback |-> << >>,
      lastCall |-> "none",
      calls |-> 0,
      interval |-> FALSE,
      tickRem |-> 0 ]

\* the host left as constructed, at noon
HostIdle == HostConstructed("mapped", 12)

\* the cloud layer scaled down to no cloud
NoClouds == [c \in {} |-> 0]

-----------------------------------------------------------------------------
(* State after construction: the component body has run, the effect not *)

\* the state after construction, the factory drawing from D
Constructed(D) ==
    /\ variant \in Variants
    /\ window \in Windows
    /\ counts \in (IF variant = "fade"
                   THEN {[small |-> 1, medium |-> 0, large |-> 0, xlarge |-> 0]}
                   ELSE Distributions)
    /\ phase = "constructed"
    /\ \E d \in [Ids -> D] :
           snowflakes = [i \in Ids |-> NewFlake(variant, i, d[i])]
    /\ ev = [op |-> "construct", id |-> 0]
    /\ clouds = NoClouds
    /\ host = HostIdle

Init == Constructed(Draws)

-----------------------------------------------------------------------------
(* Motion Planner *)

\* getAnimatedValue: the _value of an Animated.Value, 0 if it is no number;
\* every value of the model is a number
getAnimatedValue(value) == value

\* toValue of the fall: below the screen, or the fade line at 60% height
FallTarget(v) ==
    IF v = "fade" THEN (safeHeight * 6 * PosDen) \div 10
    ELSE (safeHeight + 20) * PosDen

\* ((target - baseY) / flake.speed) * 50, in milliseconds
FallDuration(v, f) ==
    ((FallTarget(v) - getAnimatedValue(f.position.y)) * 50)
        \div ((PosDen \div Den) * f.speed)

\* toValue of the left drift
LeftTarget(f) ==
    LET baseX == getAnimatedValue(f.position.x)
        leftDrift == Min((safeWidth * PosDen) \div 4, baseX)
    IN  baseX - ((leftDrift \div 7) * f.size) \div Den

\* toValue of the right drift
RightTarget(f) ==
    LET baseX == getAnimatedValue(f.position.x)
        rightDrift == Min((safeWidth * PosDen) \div 4, safeWidth * PosDen - baseX)
    IN  baseX + ((rightDrift \div 7) * f.size) \div Den

\* targetX of the wobble: baseX + (Math.random() * 20 - 10)
SwayTarget(f, k) ==
    getAnimatedValue(f.position.x) + ((k * 20 * PosDen) \div RandDen - 10 * PosDen)

\* StartComposite whose sway sequence goes to the target and back twice
StartCompositeTwice(v, f, k) ==
    LET baseX == getAnimatedValue(f.position.x)
        baseY == getAnimatedValue(f.position.y)
        fallDuration == FallDuration(v, f)
        linear == f.driftDirection \in {"left", "right"}
    IN  [ f EXCEPT
            !.animationRef = "composite",
            !.anim.fallRem = fallDuration,
            !.anim.fallFrom = baseY,
            !.anim.fallTo = FallTarget(v),
            !.anim.fallDur = fallDuration,
            !.anim.horRem = IF linear THEN fallDuration ELSE SWAY_DURATION,
            !.anim.horFrom = baseX,
            !.anim.horTo = IF f.driftDirection = "left" THEN LeftTarget(f)
                           ELSE IF f.driftDirection = "right" THEN RightTarget(f)
                           ELSE SwayTarget(f, k),
            !.anim.horDur = IF linear THEN fallDuration ELSE SWAY_DURATION,
            !.anim.horNext = IF linear THEN << >>
                             ELSE << [to |-> baseX, dur |-> SWAY_DURATION],
                                     [to |-> SwayTarget(f, k), dur |-> SWAY_DURATION],
                                     [to |-> baseX, dur |-> SWAY_DURATION] >>,
            !.anim.callbacks = @ + 1 ]

\* Animated.parallel([fallAnimation, horizontalAnimation]).start(callback):
\* the fall and the horizontal animation take over position.y and position.x
StartComposite(v, f, k) ==
    LET baseX == getAnimatedValue(f.position.x)
        baseY == getAnimatedValue(f.position.y)
        fallDuration == FallDuration(v, f)
        linear == f.driftDirection \in {"left", "right"}
    IN  [ f EXCEPT
            !.animationRef = "composite",
            !.anim.fallRem = fallDuration,
            !.anim.fallFrom = baseY,
            !.anim.fallTo = FallTarget(v),
            !.anim.fallDur = fallDuration,
            !.anim.horRem = IF linear THEN fallDuration ELSE SWAY_DURATION,
            !.anim.horFrom = baseX,
            !.anim.horTo = IF f.driftDirection = "left" THEN LeftTarget(f)
                           ELSE IF f.driftDirection = "right" THEN RightTarget(f)
                           ELSE SwayTarget(f, k),
            !.anim.horDur = IF linear THEN fallDuration ELSE SWAY_DURATION,
            !.anim.horNext = IF linear THEN << >>
                             ELSE << [to |-> baseX, dur |-> SWAY_DURATION] >>,
            !.anim.callbacks = @ + 1 ]

\* animateFlake without the check of the active flag
animateFlakeUnchecked(v, f, k) ==
    StartComposite(v, f, k)

\* animateFlake: nothing for an inactive flake
animateFlake(v, f, k) ==
    IF ~f.active THEN f ELSE StartComposite(v, f, k)

-----------------------------------------------------------------------------
(* Recycler *)

\* the draws of one recycle: resetFlake's and the next wobble target; with
\* more than one flake only the drift pattern stays free
ResetDraws ==
    IF SNOWFLAKE_COUNT = 1
        THEN [ x : RandEnds, y : RandEnds, opacity : RandEnds, drift : Rand,
               sway : RandEnds ]
    ELSE [ x : {RandDen - 1}, y : {0}, opacity : {0}, drift : Rand, sway : {0} ]

\* flakeOpacity of resetFlake
ResetOpacity(v, f, k) ==
    IF v # "fade" /\ IsExtraLarge(f.size)
        THEN (IF v = "cloud" THEN 30 * RandDen ELSE 50 * RandDen)
    ELSE BandOpacity(k)

\* resetFlake without the -10 offset of the entry point
resetFlakeAtTop(v, f, d) ==
    [ f EXCEPT
        !.position = [ x |-> ((d.x * safeWidth) * PosDen) \div RandDen,
                       y |-> 0 - (d.y * 50 * PosDen) \div RandDen ],
        !.opacity = ResetOpacity(v, f, d.opacity),
        !.driftDirection = IF v = "fade" THEN @ ELSE DriftOf(d.drift),
        !.active = TRUE,
        !.anim.fallRem = 0,
        !.anim.fallFrom = 0, !.anim.fallTo = 0, !.anim.fallDur = 0,
        !.anim.horRem = 0,
        !.anim.horFrom = 0, !.anim.horTo = 0, !.anim.horDur = 0,
        !.anim.horNext = << >>,
        !.anim.fadeRem = 0,
        !.anim.fadeFrom = 0 ]

\* resetFlake that moves the flake by the drawn x instead of placing it
resetFlakeRelative(v, f, d) ==
    [ f EXCEPT
        !.position = [ x |-> getAnimatedValue(f.position.x)
                                 + ((d.x * safeWidth) * PosDen) \div RandDen,
                       y |-> (-10) * PosDen - (d.y * 50 * PosDen) \div RandDen ],
        !.opacity = ResetOpacity(v, f, d.opacity),
        !.driftDirection = IF v = "fade" THEN @ ELSE DriftOf(d.drift),
        !.active = TRUE,
        !.anim.fallRem = 0,
        !.anim.fallFrom = 0, !.anim.fallTo = 0, !.anim.fallDur = 0,
        !.anim.horRem = 0,
        !.anim.horFrom = 0, !.anim.horTo = 0, !.anim.horDur = 0,
        !.anim.horNext = << >>,
        !.anim.fadeRem = 0,
        !.anim.fadeFrom = 0 ]

\* resetFlake that gives the flake a new id, as if it made a new flake
resetFlakeNewId(v, f, d) ==
    [ f EXCEPT
        !.id = @ + SNOWFLAKE_COUNT,
        !.position = [ x |-> ((d.x * safeWidth) * PosDen) \div RandDen,
                       y |-> (-10) * PosDen - (d.y * 50 * PosDen) \div RandDen ],
        !.opacity = ResetOpacity(v, f, d.opacity),
        !.driftDirection = IF v = "fade" THEN @ ELSE DriftOf(d.drift),
        !.active = TRUE,
        !.anim.fallRem = 0,
        !.anim.fallFrom = 0, !.anim.fallTo = 0, !.anim.fallDur = 0,
        !.anim.horRem = 0,
        !.anim.horFrom = 0, !.anim.horTo = 0, !.anim.horDur = 0,
        !.anim.horNext = << >>,
        !.anim.fadeRem = 0,
        !.anim.fadeFrom = 0 ]

\* resetFlake; setValue ends whatever animation runs on the value it sets
resetFlake(v, f, d) ==
    [ f EXCEPT
        !.position = [ x |-> ((d.x * safeWidth) * PosDen) \div RandDen,
                       y |-> (-10) * PosDen - (d.y * 50 * PosDen) \div RandDen ],
        !.opacity = ResetOpacity(v, f, d.opacity),
        !.driftDirection = IF v = "fade" THEN @ ELSE DriftOf(d.drift),
        !.active = TRUE,
        !.anim.fallRem = 0,
        !.anim.horRem = 0,
        !.anim.fallFrom = 0, !.anim.fallTo = 0, !.anim.fallDur = 0,
        !.anim.horRem = 0,
        !.anim.horFrom = 0, !.anim.horTo = 0, !.anim.horDur = 0,
        !.anim.horNext = << >>,
        !.anim.fadeRem = 0,
        !.anim.fadeFrom = 0 ]

\* Recycle that resets the flake and does not start its next cycle
RecycleNoRestart(v, f, d) ==
    IF f.active THEN resetFlake(v, f, d) ELSE f

\* Recycle that starts the next cycle before it resets the flake
RecycleStartFirst(v, f, d) ==
    IF f.active THEN resetFlake(v, animateFlake(v, f, d.sway), d) ELSE f

\* Recycle that also draws a new rotation for the flake
RecycleNewRotation(v, f, d) ==
    IF f.active
        THEN animateFlake(v, [resetFlake(v, f, d) EXCEPT
                                 !.rotation = (d.x * 360 * Den) \div RandDen], d.sway)
    ELSE f

\* if (flake.active) { resetFlake(flake); animateFlake(flake); }
Recycle(v, f, d) ==
    IF f.active THEN animateFlake(v, resetFlake(v, f, d), d.sway) ELSE f

\* FadeCallback that also restarts the flake at once, as the other variants do
FadeCallbackRestarts(v, f, d) ==
    animateFlake(v,
        [ f EXCEPT
            !.anim.fadeRem = FADE_DURATION,
            !.anim.fadeFrom = f.opacity,
            !.anim.timers = Append(@, RECYCLE_DELAY) ], d.sway)

\* FadeCallback whose recycle timer is shorter than the fade
FadeCallbackShortDelay(v, f, d) ==
    [ f EXCEPT
        !.anim.fadeRem = FADE_DURATION,
        !.anim.fadeFrom = f.opacity,
        !.anim.timers = Append(@, FADE_DURATION - (RECYCLE_DELAY - FADE_DURATION)) ]

\* the completion callback of the fade variant: fade the opacity to zero
\* and set the recycle timer
FadeCallback(v, f, d) ==
    [ f EXCEPT
        !.anim.fadeRem = FADE_DURATION,
        !.anim.fadeFrom = f.opacity,
        !.anim.timers = Append(@, RECYCLE_DELAY) ]

\* the callback given to animationRef.current.start
CompletionCallback(v, f, d) ==
    LET g == [f EXCEPT !.anim.callbacks = @ - 1]
    IN  IF v = "fade" THEN FadeCallback(v, g, d) ELSE Recycle(v, g, d)

\* TimerCallback without the active check
TimerCallbackUnchecked(v, f, d) ==
    animateFlake(v, resetFlake(v, [f EXCEPT !.anim.timers = Tail(@)], d), d.sway)

\* the callback given to setTimeout
TimerCallback(v, f, d) ==
    Recycle(v, [f EXCEPT !.anim.timers = Tail(@)], d)

-----------------------------------------------------------------------------
(* The animation clock of one flake *)

\* position between from and to with rem of dur left, to whole pixels
Lerp(from, to, rem, dur) ==
    IF rem = 0 THEN to
    ELSE IF to >= from
        THEN to - ((((to - from) \div PosDen) * rem) \div dur) * PosDen
    ELSE to + ((((from - to) \div PosDen) * rem) \div dur) * PosDen

\* ChildrenEnded that looks at the horizontal animation alone
ChildrenEndedHorizontal(f) ==
    f.anim.horRem = 0 /\ f.anim.horNext = << >>

\* ChildrenEnded that looks at the fall alone
ChildrenEndedFall(f) ==
    f.anim.fallRem = 0

\* both children of the composite have ended
ChildrenEnded(f) ==
    f.anim.fallRem = 0 /\ f.anim.horRem = 0 /\ f.anim.horNext = << >>

\* a callback of flake f is due now: time does not pass before it has run
CompletionDue(f) == f.anim.callbacks > 0 /\ ChildrenEnded(f)
TimerDue(f) == f.anim.timers # << >> /\ Head(f.anim.timers) = 0

\* the time left of everything that runs for flake f
Remaining(f) ==
    {r \in {f.anim.fallRem, f.anim.horRem, f.anim.fadeRem} : r > 0}
        \cup {f.anim.timers[j] : j \in DOMAIN f.anim.timers}

SetMin(S) == CHOOSE m \in S : \A n \in S : m <= n

\* flake f after dt milliseconds, dt at most the time to its next event
Elapse(f, dt) ==
    LET a == f.anim
        fallRem == Max(a.fallRem - dt, 0)
        horRem == Max(a.horRem - dt, 0)
        fadeRem == Max(a.fadeRem - dt, 0)
        segmentEnds == a.horRem > 0 /\ horRem = 0 /\ a.horNext # << >>
        fallEnds == fallRem = 0
        horEnds == horRem = 0 /\ a.horNext = << >>
    IN  [ f EXCEPT
            !.position.y = IF a.fallRem > 0
                           THEN Lerp(a.fallFrom, a.fallTo, fallRem, a.fallDur)
                           ELSE @,
            !.position.x = IF a.horRem > 0
                           THEN Lerp(a.horFrom, a.horTo, horRem, a.horDur)
                           ELSE @,
            !.opacity = IF a.fadeRem > 0
                        THEN (a.fadeFrom * fadeRem) \div FADE_DURATION
                        ELSE @,
            !.anim.fallRem = fallRem,
            !.anim.fallFrom = IF fallEnds THEN 0 ELSE @,
            !.anim.fallTo = IF fallEnds THEN 0 ELSE @,
            !.anim.fallDur = IF fallEnds THEN 0 ELSE @,
            !.anim.horRem = IF segmentEnds THEN Head(a.horNext).dur ELSE horRem,
            !.anim.horFrom = IF segmentEnds THEN a.horTo ELSE IF horEnds THEN 0 ELSE @,
            !.anim.horTo = IF segmentEnds THEN Head(a.horNext).to
                           ELSE IF horEnds THEN 0 ELSE @,
            !.anim.horDur = IF segmentEnds THEN Head(a.horNext).dur
                            ELSE IF horEnds THEN 0 ELSE @,
            !.anim.horNext = IF segmentEnds THEN Tail(@) ELSE @,
            !.anim.fadeRem = fadeRem,
            !.anim.fadeFrom = IF fadeRem = 0 THEN 0 ELSE @,
            !.anim.timers = [j \in DOMAIN a.timers |-> a.timers[j] - dt] ]

-----------------------------------------------------------------------------
(* Unmount *)

\* CompositeAnimation.stop(): the children that run are stopped where they
\* are and the completion callback runs, unless it has run already
StopComposite(v, f, d) ==
    IF f.anim.callbacks > 0
        THEN CompletionCallback(v,
                 [f EXCEPT !.anim.fallRem = 0, !.anim.fallFrom = 0,
                           !.anim.fallTo = 0, !.anim.fallDur = 0,
                           !.anim.horRem = 0, !.anim.horFrom = 0,
                           !.anim.horTo = 0, !.anim.horDur = 0,
                           !.anim.horNext = << >>], d)
    ELSE f

\* CleanupFlake that stops the animation before it clears the active flag
CleanupFlakeStopFirst(v, f, d) ==
    IF f.animationRef # "null"
        THEN [StopComposite(v, f, d) EXCEPT !.active = FALSE, !.animationRef = "null"]
    ELSE [f EXCEPT !.active = FALSE]

\* the body of the cleanup's forEach
CleanupFlake(v, f, d) ==
    LET g == [f EXCEPT !.active = FALSE]
    IN  IF g.animationRef # "null"
            THEN [StopComposite(v, g, d) EXCEPT !.animationRef = "null"]
        ELSE g

-----------------------------------------------------------------------------
(* Actions *)

\* the mount effect: snowflakes.forEach(animateFlake)
Mount ==
    /\ phase \in {"constructed", "unmounted"}
    /\ phase' = IF phase = "constructed" THEN "mounted" ELSE "remounted"
    /\ \E k \in [Ids -> RandEnds] :
           snowflakes' = [i \in Ids |-> animateFlake(variant, snowflakes[i], k[i])]
    /\ ev' = [op |-> "mount", id |-> 0]
    /\ UNCHANGED <<clouds, host, variant, window, counts>>

\* time passes for flake i, up to its next event
Advance(i) ==
    /\ ~CompletionDue(snowflakes[i])
    /\ ~TimerDue(snowflakes[i])
    /\ Remaining(snowflakes[i]) # {}
    /\ snowflakes' = [snowflakes EXCEPT
                         ![i] = Elapse(@, SetMin(Remaining(snowflakes[i])))]
    /\ ev' = [op |-> "advance", id |-> i]
    /\ UNCHANGED <<clouds, host, variant, window, counts, phase>>

\* Complete with the drift pattern kept in one place for all flakes: the
\* draw of flake i's recycle redirects the others too
CompleteShared(i) ==
    /\ CompletionDue(snowflakes[i])
    /\ \E d \in ResetDraws :
           snowflakes' =
               [j \in Ids |->
                   IF j = i THEN CompletionCallback(variant, snowflakes[j], d)
                   ELSE [snowflakes[j] EXCEPT
                            !.driftDirection = IF variant = "fade" THEN @
                                               ELSE DriftOf(d.drift)]]
    /\ ev' = [op |-> "complete", id |-> i]
    /\ UNCHANGED <<clouds, host, variant, window, counts, phase>>

\* the composite animation of flake i has ended: its callback runs
Complete(i) ==
    /\ CompletionDue(snowflakes[i])
    /\ \E d \in ResetDraws :
           snowflakes' = [snowflakes EXCEPT ![i] = CompletionCallback(variant, @, d)]
    /\ ev' = [op |-> "complete", id |-> i]
    /\ UNCHANGED <<clouds, host, variant, window, counts, phase>>

\* the recycle timer of flake i fires
RecycleTimer(i) ==
    /\ TimerDue(snowflakes[i])
    /\ \E d \in ResetDraws :
           snowflakes' = [snowflakes EXCEPT ![i] = TimerCallback(variant, @, d)]
    /\ ev' = [op |-> "timer", id |-> i]
    /\ UNCHANGED <<clouds, host, variant, window, counts, phase>>

\* the cleanup of the mount effect
Cleanup ==
    /\ phase \in {"mounted", "remounted"}
    /\ phase' = "unmounted"
    /\ \E d \in [Ids -> ResetDraws] :
           snowflakes' = [i \in Ids |-> CleanupFlake(variant, snowflakes[i], d[i])]
    /\ ev' = [op |-> "cleanup", id |-> 0]
    /\ UNCHANGED <<clouds, host, variant, window, counts>>

Next ==
    \/ Mount
    \/ Cleanup
    \/ \E i \in Ids : Advance(i)
    \/ \E i \in Ids : Complete(i)
    \/ \E i \in Ids : RecycleTimer(i)

Spec == Init /\ [][Next]_vars

\* every index a distribution can give a flake
AllIds ==
    UNION { 0 .. (d.small + d.medium + d.large + d.xlarge - 1) : d \in Distributions }

\* the host's frame clock keeps running, and a callback or timer that is
\* due is delivered: the steps of every flake are weakly fair.  Mount and
\* Cleanup are the host's choice and carry no fairness.
\* The draws that decide how long a cycle takes and which path it takes
\* (size, drift, speed, start height) stay free; those that only decide
\* the look of the flake are fixed.
LiveDraws ==
    [ size : RandEnds, drift : Rand, factor : RandEnds, jitter : RandEnds,
      opacity : {0}, elliptical : {0}, x : {RandDen - 1}, y : RandEnds,
      rotation : {RandDen - 1} ]

LiveInit == Constructed(LiveDraws)

FairSpec ==
    /\ LiveInit /\ [][Next]_vars
    /\ \A i \in AllIds :
           /\ WF_vars(i \in Ids /\ Advance(i))
           /\ WF_vars(i \in Ids /\ Complete(i))
           /\ WF_vars(i \in Ids /\ RecycleTimer(i))

-----------------------------------------------------------------------------
(* resetFlake on its own: the recycler applied to generated particles, any *)
(* number of times in a row, with no animation started in between          *)

\* resetFlake(snowflakes[i]) and nothing else
ResetAgain(i) ==
    /\ \E d \in ResetDraws :
           snowflakes' = [snowflakes EXCEPT ![i] = resetFlake(variant, @, d)]
    /\ ev' = [op |-> IF ev.op \in {"reset", "reset again"} /\ ev.id = i
                     THEN "reset again" ELSE "reset",
              id |-> i]
    /\ UNCHANGED <<clouds, host, variant, window, counts, phase>>

ResetNext == \E i \in Ids : ResetAgain(i)

ResetSpec == Init /\ [][ResetNext]_vars


-----------------------------------------------------------------------------
(* Two particles side by side *)

\* two flakes: a small and an extra large one, in the fade variant two of
\* its one kind
PairDistributions ==
    { [small |-> 1, medium |-> 0, large |-> 0, xlarge |-> 1] }

\* the draws of the factory with two flakes: the drift pattern stays free
PairDraws ==
    [ size : {0}, drift : Rand, factor : {0}, jitter : {0},
      opacity : {0}, elliptical : {0}, x : {RandDen - 1}, y : {RandDen - 1},
      rotation : {RandDen - 1} ]

PairInit ==
    /\ variant \in Variants
    /\ window \in Windows
    /\ counts \in (IF variant = "fade"
                   THEN {[small |-> 2, medium |-> 0, large |-> 0, xlarge |-> 0]}
                   ELSE PairDistributions)
    /\ phase = "constructed"
    /\ \E d \in [Ids -> PairDraws] :
           snowflakes = [i \in Ids |-> NewFlake(variant, i, d[i])]
    /\ ev = [op |-> "construct", id |-> 0]
    /\ clouds = NoClouds
    /\ host = HostIdle

PairSpec == PairInit /\ [][Next]_vars

-----------------------------------------------------------------------------
(* The factory on its own: two particles of any two classes *)

\* every way to give two flakes a size class each
FactoryDistributions ==
    { c \in [small : 0 .. 2, medium : 0 .. 2, large : 0 .. 2, xlarge : 0 .. 2] :
          c.small + c.medium + c.large + c.xlarge = 2 }

\* the draws that decide size and speed stay free
FactoryDraws ==
    [ size : RandEnds, drift : {0}, factor : RandEnds, jitter : RandEnds,
      opacity : {0}, elliptical : {0}, x : {0}, y : {RandDen - 1},
      rotation : {0} ]

FactoryInit ==
    /\ variant \in Variants
    /\ window \in Windows
    /\ counts \in (IF variant = "fade"
                   THEN {[small |-> 2, medium |-> 0, large |-> 0, xlarge |-> 0]}
                   ELSE FactoryDistributions)
    /\ phase = "constructed"
    /\ \E d \in [Ids -> FactoryDraws] :
           snowflakes = [i \in Ids |-> NewFlake(variant, i, d[i])]
    /\ ev = [op |-> "construct", id |-> 0]
    /\ clouds = NoClouds
    /\ host = HostIdle

\* the particles are generated and the mount effect starts them
FactorySpec == FactoryInit /\ [][Mount]_vars

-----------------------------------------------------------------------------
(* Host screen: handlers *)

\* CrossfadeCallback without fadeAnim.setValue(1)
CrossfadeCallbackNoReset(h) ==
    LET g == [h EXCEPT !.fadeRem = 0, !.fadeCallback = << >>]
    IN  IF h.phase = "mounted"
            THEN [g EXCEPT
                    !.visibleFloorGradient = Head(h.fadeCallback).floor,
                    !.visibleSkyGradient = Head(h.fadeCallback).sky]
        ELSE g

\* the callback given to the crossfade's start: swap gradients and reset
\* the animation.  Setting state has no effect once the screen is unmounted.
CrossfadeCallback(h) ==
    LET g == [h EXCEPT !.fadeAnim = 100, !.fadeRem = 0, !.fadeCallback = << >>]
    IN  IF h.phase = "mounted"
            THEN [g EXCEPT
                    !.visibleFloorGradient = Head(h.fadeCallback).floor,
                    !.visibleSkyGradient = Head(h.fadeCallback).sky]
        ELSE g

\* updateGradients(weather): starting the timing on fadeAnim stops the one
\* that runs on it, whose callback then runs at once
updateGradients(h, weather) ==
    LET newFloorGradient == FloorGradientOf(h.version, weather)
        newSkyGradient == SkyGradientOf(h.version, weather)
        g == IF h.fadeCallback # << >> THEN CrossfadeCallback(h) ELSE h
    IN  [ g EXCEPT
            !.hiddenFloorGradient = IF h.phase = "mounted" THEN newFloorGradient ELSE @,
            !.hiddenSkyGradient = IF h.phase = "mounted" THEN newSkyGradient ELSE @,
            !.fadeRem = CROSSFADE_DURATION,
            !.fadeCallback = << [floor |-> newFloorGradient, sky |-> newSkyGradient] >>,
            !.lastCall = weather ]

\* updateWeatherBasedOnTime(isDay), with the weatherCondition of its closure
updateWeatherBasedOnTime(h, isDay) ==
    LET newWeather == TimeWeather(getCurrentWeatherBase(h.effectWeather), isDay)
    IN  IF newWeather # h.effectWeather
            THEN updateGradients(
                     [h EXCEPT !.weatherCondition =
                                   IF h.phase = "mounted" THEN newWeather ELSE @],
                     newWeather)
        ELSE h

checkTimeOfDay(h) == updateWeatherBasedOnTime(h, IsDay(h.hour))

\* updateWeather: snow, by day or by night
updateWeather(h) ==
    LET newWeather == IF IsDay(h.hour) THEN "snow_day" ELSE "snow_night"
    IN  updateGradients(
            [h EXCEPT !.weatherCondition =
                          IF h.phase = "mounted" THEN newWeather ELSE @],
            newWeather)

\* the mount effect of the screen; the functions it calls, and hands to
\* setInterval, are those of the render it belongs to
HostMount ==
    /\ host.phase = "constructed"
    /\ host' = [ updateWeather(checkTimeOfDay(
                     [host EXCEPT !.phase = "mounted",
                                  !.effectWeather = host.weatherCondition]))
                 EXCEPT !.interval = TRUE, !.tickRem = CHECK_INTERVAL ]
    /\ ev' = [op |-> "host mount", id |-> 0]
    /\ UNCHANGED <<variant, window, counts, phase, snowflakes, clouds>>

\* the crossfade has run to its end: its callback runs
HostCrossfadeDue == host.fadeCallback # << >> /\ host.fadeRem = 0
\* the interval fires
HostTickDue == host.interval /\ host.tickRem = 0

\* the time to the next frame of the crossfade and to the next tick
HostRemaining ==
    {r \in {Min(host.fadeRem, CROSSFADE_DURATION \div CrossfadeFrames)} : r > 0}
        \cup {r \in {host.tickRem} : host.interval}

\* time passes for the screen, up to its next event
HostAdvance ==
    /\ ~HostCrossfadeDue
    /\ ~HostTickDue
    /\ HostRemaining # {}
    /\ LET dt == SetMin(HostRemaining)
           fadeRem == Max(host.fadeRem - dt, 0)
       IN  host' = [ host EXCEPT
                       !.fadeRem = fadeRem,
                       !.fadeAnim = IF host.fadeRem > 0
                                    THEN (100 * fadeRem) \div CROSSFADE_DURATION
                                    ELSE @,
                       !.tickRem = IF host.interval THEN @ - dt ELSE @ ]
    /\ ev' = [op |-> "host advance", id |-> 0]
    /\ UNCHANGED <<variant, window, counts, phase, snowflakes, clouds>>

HostCrossfadeEnd ==
    /\ HostCrossfadeDue
    /\ host' = CrossfadeCallback(host)
    /\ ev' = [op |-> "crossfade end", id |-> 0]
    /\ UNCHANGED <<variant, window, counts, phase, snowflakes, clouds>>

\* setInterval(checkTimeOfDay, 60000) fires
HostTick ==
    /\ HostTickDue
    /\ ~HostCrossfadeDue
    /\ host' = [checkTimeOfDay(host) EXCEPT !.tickRem = CHECK_INTERVAL]
    /\ ev' = [op |-> "tick", id |-> 0]
    /\ UNCHANGED <<variant, window, counts, phase, snowflakes, clouds>>

\* the wall clock reaches the next hour
HostHour ==
    /\ host' = [host EXCEPT !.hour = (@ + 1) % 24]
    /\ ev' = [op |-> "hour", id |-> 0]
    /\ UNCHANGED <<variant, window, counts, phase, snowflakes, clouds>>

\* the cleanup of the mount effect: clearInterval
HostUnmount ==
    /\ host.phase = "mounted"
    /\ host' = [host EXCEPT !.phase = "unmounted", !.interval = FALSE, !.tickRem = 0]
    /\ ev' = [op |-> "host unmount", id |-> 0]
    /\ UNCHANGED <<variant, window, counts, phase, snowflakes, clouds>>

HostNext ==
    \/ HostMount
    \/ HostAdvance
    \/ HostCrossfadeEnd
    \/ HostTick
    \/ HostHour
    \/ HostUnmount

\* the draws of the one flake the screen's snow effect is given here
HostFlakeDraw ==
    [ size |-> 0, drift |-> 0, factor |-> 0, jitter |-> 0, opacity |-> 0,
      elliptical |-> 0, x |-> 0, y |-> RandDen - 1, rotation |-> 0 ]

\* the screen after its first render, at any hour, its snow effect
\* constructed and left alone
HostInit ==
    /\ variant = "directional"
    /\ window = [width |-> 320, height |-> 568]
    /\ counts = [small |-> 1, medium |-> 0, large |-> 0, xlarge |-> 0]
    /\ phase = "constructed"
    /\ snowflakes = [i \in Ids |-> NewFlake(variant, i, HostFlakeDraw)]
    /\ ev = [op |-> "construct", id |-> 0]
    /\ clouds = NoClouds
    /\ host \in {HostConstructed(v, h) : v \in HostVersions, h \in 0 .. 23}

HostSpec == HostInit /\ [][HostNext]_vars

\* the weather a caller may hand to updateGradients
CallWeathers == {"sunny_day", "snow_night", "rainy_day"}

\* updateGradients called from outside the time check, as the weather
\* service of updateWeather would
UpdateGradientsCall(weather) ==
    /\ host.phase = "mounted"
    /\ host.calls < MaxCalls
    /\ ~HostCrossfadeDue
    /\ host' = updateGradients([host EXCEPT !.calls = @ + 1], weather)
    /\ ev' = [op |-> "update gradients", id |-> 0]
    /\ UNCHANGED <<variant, window, counts, phase, snowflakes, clouds>>

GradientNext ==
    \/ HostNext
    \/ \E weather \in CallWeathers : UpdateGradientsCall(weather)

GradientSpec == HostInit /\ [][GradientNext]_vars

-----------------------------------------------------------------------------
(* Clouds of the cloud variant *)

\* the cloud records of SnowDayEffect, scaled down to one cloud
CloudIds == {0}

\* no animation on an Animated.Value
NoTiming == [from |-> 0, to |-> 0, rem |-> 0, dur |-> 0, next |-> << >>]

\* a Cloud component after its first render: moveX and moveY at 0, no timer
\* (timer = -1), nothing animated
NewCloud ==
    [ moveX |-> 0, moveY |-> 0, timer |-> -1, x |-> NoTiming, y |-> NoTiming ]

\* Easing.inOut(Easing.sin) at p / q, in thousandths: (1 - cos(pi t)) / 2,
\* which is the square of sin(pi t / 2); the sine by Bhaskara's rational
\* form 4w / (5 - w), w = t (2 - t), with t in hundredths
EaseInOutSin(p, q) ==
    LET t == (100 * p) \div q
        w == t * (200 - t)
        sine == (4000 * w) \div (50000 - w)
    IN  (sine * sine) \div 1000

\* the value a timing gives its Animated.Value, in units of 1/Den pixel
TimingValue(a) ==
    IF a.rem = 0 THEN a.to
    ELSE a.from + ((a.to - a.from) * EaseInOutSin(a.dur - a.rem, a.dur)) \div 1000

\* the draws of one animateCloud call
CloudDraws == [xRange : Rand, yRange : Rand, duration : Rand]

\* animateCloud: a sequence out to xRange and back to -xRange on moveX, whose
\* end calls animateCloud again, and one on moveY, 1.2 times slower; a
\* timing started on a value takes the place of the one running on it
animateCloud(c, d) ==
    LET xRange == 1500 * d.xRange + 5 * Den
        yRange == 800 * d.yRange + 2 * Den
        duration == (4000 * d.duration) \div RandDen + 6000
        slower == (duration * 12) \div 10
    IN  [c EXCEPT
            !.x = [from |-> c.moveX, to |-> xRange, rem |-> duration,
                   dur |-> duration, next |-> <<-xRange>>],
            !.y = [from |-> c.moveY, to |-> yRange, rem |-> slower,
                   dur |-> slower, next |-> <<-yRange>>]]

\* a timing after dt milliseconds; at the end of a segment the sequence
\* starts its next one
TimingElapse(a, dt) ==
    LET rem == Max(a.rem - dt, 0)
    IN  IF a.rem > 0 /\ rem = 0 /\ a.next # << >>
            THEN [from |-> a.to, to |-> Head(a.next), rem |-> a.dur,
                  dur |-> a.dur, next |-> Tail(a.next)]
        ELSE [a EXCEPT !.rem = rem]

\* a sequence on moveY that has ended is gone: it has no callback
TimingSettle(a) == IF a.rem = 0 THEN NoTiming ELSE a

CloudTimerDue(c) == c.timer = 0
\* the sequence on moveX has ended and its callback is to run
CloudLoopDue(c) == c.x.dur > 0 /\ c.x.rem = 0

CloudRemaining(c) == {r \in {c.timer, c.x.rem, c.y.rem} : r > 0}

\* cloud c after dt milliseconds, dt at most the time to its next event
CloudElapse(c, dt) ==
    LET movedX == TimingValue([c.x EXCEPT !.rem = Max(@ - dt, 0)])
        movedY == TimingValue([c.y EXCEPT !.rem = Max(@ - dt, 0)])
    IN  [ moveX |-> IF c.x.rem > 0 THEN movedX ELSE c.moveX,
          moveY |-> IF c.y.rem > 0 THEN movedY ELSE c.moveY,
          timer |-> IF c.timer > 0 THEN c.timer - dt ELSE c.timer,
          x |-> TimingElapse(c.x, dt),
          y |-> TimingSettle(TimingElapse(c.y, dt)) ]

\* the first commit of the cloud variant: the effect of SnowDayEffect starts
\* every flake, the effect of every Cloud sets its start timer.  A later
\* mount renders new Cloud components, which behave as these.
CloudMount ==
    /\ phase = "constructed"
    /\ phase' = "mounted"
    /\ \E k \in [Ids -> RandEnds] :
           snowflakes' = [i \in Ids |-> animateFlake(variant, snowflakes[i], k[i])]
    /\ \E startDelay \in [CloudIds -> Rand] :
           clouds' = [c \in CloudIds |->
                         [clouds[c] EXCEPT
                             !.timer = (2000 * startDelay[c]) \div RandDen]]
    /\ ev' = [op |-> "mount", id |-> 0]
    /\ UNCHANGED <<host, variant, window, counts>>

\* the start timer of cloud c fires: nothing clears it, mounted or not
CloudTimer(c) ==
    /\ CloudTimerDue(clouds[c])
    /\ \E d \in CloudDraws :
           clouds' = [clouds EXCEPT ![c] = animateCloud([@ EXCEPT !.timer = -1], d)]
    /\ ev' = [op |-> "cloud timer", id |-> c]
    /\ UNCHANGED <<snowflakes, host, variant, window, counts, phase>>

\* the callback of the sequence on moveX: animateCloud again
CloudLoop(c) ==
    /\ ~CloudTimerDue(clouds[c])
    /\ CloudLoopDue(clouds[c])
    /\ \E d \in CloudDraws :
           clouds' = [clouds EXCEPT ![c] = animateCloud(@, d)]
    /\ ev' = [op |-> "cloud loop", id |-> c]
    /\ UNCHANGED <<snowflakes, host, variant, window, counts, phase>>

\* time passes for cloud c, up to its next event
CloudAdvance(c) ==
    /\ ~CloudTimerDue(clouds[c])
    /\ ~CloudLoopDue(clouds[c])
    /\ CloudRemaining(clouds[c]) # {}
    /\ clouds' = [clouds EXCEPT
                     ![c] = CloudElapse(@, SetMin(CloudRemaining(clouds[c])))]
    /\ ev' = [op |-> "cloud advance", id |-> c]
    /\ UNCHANGED <<snowflakes, host, variant, window, counts, phase>>

\* the cleanup of SnowDayEffect: flakes only
\* (the cloud variant has no recycle timer: its completion callback recycles)
CloudCleanup ==
    /\ Cleanup
    /\ phase = "mounted"

CloudNext ==
    \/ CloudMount
    \/ CloudCleanup
    \/ \E i \in Ids : Advance(i)
    \/ \E i \in Ids : Complete(i)
    \/ \E c \in CloudIds : CloudTimer(c)
    \/ \E c \in CloudIds : CloudLoop(c)
    \/ \E c \in CloudIds : CloudAdvance(c)

\* the cloud variant after its first render: one flake, the clouds constructed
CloudInit ==
    /\ variant = "cloud"
    /\ window = [width |-> 320, height |-> 568]
    /\ counts = [small |-> 1, medium |-> 0, large |-> 0, xlarge |-> 0]
    /\ phase = "constructed"
    /\ snowflakes = [i \in Ids |-> NewFlake(variant, i, HostFlakeDraw)]
    /\ ev = [op |-> "construct", id |-> 0]
    /\ clouds = [c \in CloudIds |-> NewCloud]
    /\ host = HostIdle

CloudSpec == CloudInit /\ [][CloudNext]_vars

-----------------------------------------------------------------------------
(* Properties *)


\* the cleanup of the mount effect has run
CleanedUp == phase \in {"unmounted", "remounted"}

\* something still runs on a value of flake f
Animating(f) == f.anim.fallRem > 0 \/ f.anim.horRem > 0 \/ f.anim.fadeRem > 0

\* flake i was recycled by the last handler: in the fade variant by the
\* timer, in the others by the completion callback
Recycled(i) ==
    /\ ev.id = i
    /\ snowflakes[i].active
    /\ ev.op = IF variant = "fade" THEN "timer" ELSE "complete"

\* C1: in the directional and cloud variants, from the cleanup on no step
\* changes a particle's position, opacity or drift direction, and after
\* every such step no animation cycle of the particle is in flight; this
\* includes the cleanup step itself, where stop() runs the callback.
C1_NoMutationAfterCleanup ==
    [][ (variant # "fade" /\ phase' \in {"unmounted", "remounted"}) =>
          \A i \in Ids :
              /\ snowflakes'[i].position = snowflakes[i].position
              /\ snowflakes'[i].opacity = snowflakes[i].opacity
              /\ snowflakes'[i].driftDirection = snowflakes[i].driftDirection
              /\ snowflakes'[i].anim.callbacks = 0
              /\ ~Animating(snowflakes'[i]) ]_vars

\* the cleanup stopped a directional flake in mid fall
C1_Witness ==
    /\ variant = "directional"
    /\ phase = "unmounted"
    /\ \E i \in Ids :
           /\ ~snowflakes[i].active
           /\ snowflakes[i].position.y > 0
           /\ snowflakes[i].position.y < FallTarget(variant)

\* C2: in the fade variant, a step in which the completion callback of a
\* deactivated particle runs starts no opacity fade and changes neither
\* the particle's position nor its opacity.
C2_CallbackSuppressed ==
    [][ \A i \in Ids :
          ( /\ variant = "fade"
            /\ ~snowflakes'[i].active
            /\ snowflakes'[i].anim.callbacks < snowflakes[i].anim.callbacks ) =>
              /\ snowflakes'[i].anim.fadeRem = snowflakes[i].anim.fadeRem
              /\ snowflakes'[i].position = snowflakes[i].position
              /\ snowflakes'[i].opacity = snowflakes[i].opacity ]_vars

\* C3: once the cleanup has run, every particle is inactive, holds no
\* animation handle, and nothing runs on its position or opacity.
C3_NothingRunsAfterCleanup ==
    CleanedUp =>
        \A i \in Ids :
            /\ ~snowflakes[i].active
            /\ snowflakes[i].animationRef = "null"
            /\ ~Animating(snowflakes[i])

\* C4: in the fade variant, a recycle timer that fires for a deactivated
\* particle changes neither position nor opacity and starts no animation.
C4_StaleTimerNoOp ==
    [][ \A i \in Ids :
          ( /\ variant = "fade"
            /\ ev'.op = "timer" /\ ev'.id = i
            /\ ~snowflakes[i].active ) =>
              /\ snowflakes'[i].position = snowflakes[i].position
              /\ snowflakes'[i].opacity = snowflakes[i].opacity
              /\ ~snowflakes'[i].active
              /\ snowflakes'[i].anim.callbacks = snowflakes[i].anim.callbacks
              /\ snowflakes'[i].anim.fallRem = 0
              /\ snowflakes'[i].anim.horRem = 0 ]_vars

\* a timer set when a fall reached the fade line has fired after unmount
C4_Witness ==
    /\ variant = "fade"
    /\ CleanedUp
    /\ ev.op = "timer"
    /\ \E i \in Ids :
           /\ ev.id = i
           /\ ~snowflakes[i].active
           /\ snowflakes[i].position.y = FallTarget(variant)

\* C5: no particle ever has more than one composite animation whose
\* completion callback has not run.
C5_OneCyclePerFlake ==
    \A i \in Ids : snowflakes[i].anim.callbacks <= 1

\* a particle has been recycled and its next cycle is in flight
C5_Witness ==
    \E i \in Ids : Recycled(i) /\ snowflakes[i].anim.callbacks = 1

\* C6: while the screen stays mounted, every particle is recycled again and
\* again, each recycle leaving its next cycle in flight: whenever the
\* screen is mounted, either it is unmounted later or the particle is
\* recycled later with a new composite animation started.
C6_RecycledForever ==
    \A i \in AllIds :
        [](phase = "mounted" =>
              <>( \/ phase # "mounted"
                  \/ i \notin Ids
                  \/ Recycled(i) /\ snowflakes[i].anim.callbacks = 1
                                 /\ Animating(snowflakes[i]) ))

\* a particle of the fade variant re-entered from the top after its
\* fade-out, with its next fall in flight
C6_Witness ==
    \E i \in Ids :
        /\ variant = "fade"
        /\ phase = "mounted"
        /\ Recycled(i)
        /\ snowflakes[i].anim.fallRem > 0
        /\ snowflakes[i].opacity > 0

\* C7: right after a particle was recycled its y is below zero and it is
\* active.
C7_RecycledAboveScreen ==
    \A i \in Ids :
        ( /\ ev.id = i
          /\ \/ variant # "fade" /\ ev.op = "complete"
             \/ variant = "fade" /\ ev.op = "timer" /\ phase = "mounted" ) =>
            /\ snowflakes[i].position.y < 0
            /\ snowflakes[i].active

\* a particle was recycled to the topmost entry point, 10 above the screen
C7_Witness ==
    \E i \in Ids :
        /\ Recycled(i)
        /\ phase = "mounted"
        /\ snowflakes[i].position.y = (-10) * PosDen

\* C8: while a left or right drift is in flight, the particle's x and the
\* target of the drift lie in [0, safeWidth].
C8_DriftWithinWidth ==
    \A i \in Ids :
        ( /\ variant # "fade"
          /\ snowflakes[i].driftDirection \in {"left", "right"}
          /\ snowflakes[i].anim.horRem > 0 ) =>
            /\ 0 <= snowflakes[i].anim.horTo
            /\ snowflakes[i].anim.horTo <= safeWidth * PosDen
            /\ 0 <= snowflakes[i].position.x
            /\ snowflakes[i].position.x <= safeWidth * PosDen

\* the bounds of the size classes: 1-3, 4-7, 8-10, 80%-120% of 20
ClassLow(c) ==
    IF c = "small" THEN 1 * Den
    ELSE IF c = "medium" THEN 4 * Den
    ELSE IF c = "large" THEN 8 * Den
    ELSE (EXTRA_LARGE_SIZE * 8 * Den) \div 10

ClassHigh(c) ==
    IF c = "small" THEN 3 * Den
    ELSE IF c = "medium" THEN 7 * Den
    ELSE IF c = "large" THEN 10 * Den
    ELSE (EXTRA_LARGE_SIZE * 12 * Den) \div 10

\* C9 as stated: every size lies strictly between the bounds of the class
\* its index assigns.
C9_SizeStrictlyInside ==
    \A i \in Ids :
        variant # "fade" =>
            /\ ClassLow(ClassOf(i)) < snowflakes[i].size
            /\ snowflakes[i].size < ClassHigh(ClassOf(i))

\* C9 amended: every size is at least the lower bound of its class and
\* strictly below the upper bound.
C9_SizeInClass ==
    \A i \in Ids :
        variant # "fade" =>
            /\ ClassLow(ClassOf(i)) <= snowflakes[i].size
            /\ snowflakes[i].size < ClassHigh(ClassOf(i))

\* an extra large particle above the nominal size, after a recycle
C9_Witness ==
    \E i \in Ids :
        /\ variant # "fade"
        /\ ClassOf(i) = "xlarge"
        /\ snowflakes[i].size > EXTRA_LARGE_SIZE * Den
        /\ Recycled(i)

\* C10: every particle's opacity is in [0, 1] and its rotation in [0, 360).
C10_OpacityRotationRange ==
    \A i \in Ids :
        /\ 0 <= snowflakes[i].opacity
        /\ snowflakes[i].opacity <= Den
        /\ 0 <= snowflakes[i].rotation
        /\ snowflakes[i].rotation < 360 * Den

\* a particle of the fade variant has faded out while mounted
C10_Witness ==
    \E i \in Ids :
        /\ variant = "fade"
        /\ phase = "mounted"
        /\ snowflakes[i].opacity = 0
        /\ snowflakes[i].rotation > 0

\* C11 as stated: immediately after generation every particle is strictly
\* above the screen (y < 0) and horizontally inside it (0 <= x <= width).
C11_GeneratedAboveScreen ==
    phase = "constructed" =>
        \A i \in Ids :
            /\ snowflakes[i].position.y < 0
            /\ 0 <= snowflakes[i].position.x
            /\ snowflakes[i].position.x <= safeWidth * PosDen

\* C11 amended: immediately after generation every particle is at or above
\* the top edge (-height < y <= 0, y = 0 when the draw is 0) and horizontally
\* inside the screen (0 <= x < width).
C11_GeneratedAtOrAboveTop ==
    phase = "constructed" =>
        \A i \in Ids :
            /\ (-1) * safeHeight * PosDen < snowflakes[i].position.y
            /\ snowflakes[i].position.y <= 0
            /\ 0 <= snowflakes[i].position.x
            /\ snowflakes[i].position.x < safeWidth * PosDen

\* a particle generated on the top edge itself, right of the left edge
C11_Witness ==
    \E i \in Ids :
        /\ phase = "constructed"
        /\ snowflakes[i].position.y = 0
        /\ snowflakes[i].position.x > 0

\* C12: after resetFlake has been applied to a particle twice in a row, with
\* no fall in between, the particle is valid: its size is within the bounds
\* of its class, 0 <= opacity <= 1, 0 <= rotation < 360, y < 0,
\* 0 <= x <= width, its drift is one of left, right and sway, and it is
\* active.
C12_ValidAfterSecondReset ==
    \A i \in Ids :
        (ev.op = "reset again" /\ ev.id = i) =>
            /\ variant # "fade" =>
                   /\ ClassLow(ClassOf(i)) <= snowflakes[i].size
                   /\ snowflakes[i].size <= ClassHigh(ClassOf(i))
            /\ variant = "fade" =>
                   /\ 2 * Den <= snowflakes[i].size
                   /\ snowflakes[i].size <= 7 * Den
            /\ 0 <= snowflakes[i].opacity
            /\ snowflakes[i].opacity <= Den
            /\ 0 <= snowflakes[i].rotation
            /\ snowflakes[i].rotation < 360 * Den
            /\ snowflakes[i].position.y < 0
            /\ 0 <= snowflakes[i].position.x
            /\ snowflakes[i].position.x <= safeWidth * PosDen
            /\ snowflakes[i].driftDirection \in {"left", "right", "sway"}
            /\ snowflakes[i].active

\* a medium particle reset for the second time in a row, placed away from
\* the left edge and at the far end of the entry band
C12_Witness ==
    \E i \in Ids :
        /\ ev = [op |-> "reset again", id |-> i]
        /\ variant = "directional"
        /\ ClassOf(i) = "medium"
        /\ snowflakes[i].position.x > 0
        /\ snowflakes[i].position.y < (-10) * PosDen
        /\ snowflakes[i].animationRef = "null"

\* C13: per particle the order is start, completion callback, recycle, next
\* start.  A completion callback runs only for a composite that was started
\* and has not been called back yet; a particle is recycled (moved back up)
\* only in its own completion callback, in the fade variant in the timer
\* that callback has set; the recycle and the next start are one step; a
\* composite is started only by the mount effect or by a recycle.
C13_CycleOrder ==
    [][ \A i \in Ids :
          LET f == snowflakes[i]
              g == snowflakes'[i]
              called == ev'.op = "complete" /\ ev'.id = i
              recycled == g.position.y < f.position.y
              started == g.anim.fallRem > f.anim.fallRem
          IN  /\ g.anim.callbacks >= 0
              /\ called => f.anim.callbacks > 0 /\ f.animationRef = "composite"
              /\ recycled =>
                     /\ ev'.id = i
                     /\ IF variant = "fade"
                            THEN /\ ev'.op = "timer"
                                 /\ f.anim.callbacks = 0
                                 /\ f.anim.timers # << >>
                            ELSE called
                     /\ started
                     /\ g.anim.callbacks = 1
              /\ started => ev'.op = "mount" \/ recycled
      ]_vars

\* a cloud-variant particle just recycled in its completion callback, its
\* next composite running
C13_Witness ==
    \E i \in Ids :
        /\ variant = "cloud"
        /\ Recycled(i)
        /\ snowflakes[i].position.y < 0
        /\ snowflakes[i].anim.callbacks = 1
        /\ snowflakes[i].anim.fallRem > 0

\* C14: while the effect is mounted a particle is recycled, and its
\* completion callback runs, only when its fall has finished: its y is the
\* fall target in the state the step starts from.
C14_RecycledOnlyAfterFall ==
    [][ \A i \in Ids :
          LET f == snowflakes[i]
              g == snowflakes'[i]
          IN  ( /\ phase = "mounted"
                /\ \/ g.position.y < f.position.y
                   \/ (ev'.op = "complete" /\ ev'.id = i) ) =>
                  /\ f.position.y = FallTarget(variant)
                  /\ f.anim.fallRem = 0
      ]_vars

\* a mounted particle of the directional variant at its fall target, its
\* completion callback due
C14_Witness ==
    \E i \in Ids :
        /\ variant = "directional"
        /\ phase = "mounted"
        /\ CompletionDue(snowflakes[i])
        /\ snowflakes[i].position.y = FallTarget(variant)

\* C15: the particles are those of the construction from then on: the array
\* keeps its length and its index set 0 .. N-1, every particle keeps its id,
\* and the ids are the indices, each exactly once.
C15_PopulationFixed ==
    /\ [](/\ DOMAIN snowflakes = 0 .. (SNOWFLAKE_COUNT - 1)
          /\ \A i \in DOMAIN snowflakes : snowflakes[i].id = i)
    /\ [][ /\ counts' = counts
           /\ DOMAIN snowflakes' = DOMAIN snowflakes
           /\ \A i \in DOMAIN snowflakes : snowflakes'[i].id = snowflakes[i].id
       ]_vars

\* two particles after an unmount, the second recycled before it
C15_Witness ==
    /\ SNOWFLAKE_COUNT = 2
    /\ phase = "unmounted"
    /\ snowflakes[0].id = 0
    /\ snowflakes[1].id = 1
    /\ snowflakes[1].position.y > (-1) * safeHeight * PosDen
    /\ snowflakes[1].opacity # InitialOpacity(snowflakes[1].size, 0)

\* C16: a step of one particle (its animation advancing, its completion
\* callback, its recycle and restart, its recycle timer) leaves every other
\* particle as it was, and the cleanup, which stops every animation, leaves
\* every particle's position, size, opacity, rotation, speed and drift
\* direction as they were.
C16_OthersUnchanged ==
    [][ /\ \A i, j \in Ids :
              ( /\ i # j
                /\ ev'.id = i
                /\ ev'.op \in {"advance", "complete", "timer"} ) =>
                  snowflakes'[j] = snowflakes[j]
        /\ ev'.op = "cleanup" =>
              \A j \in Ids :
                  /\ snowflakes'[j].position = snowflakes[j].position
                  /\ snowflakes'[j].size = snowflakes[j].size
                  /\ snowflakes'[j].opacity = snowflakes[j].opacity
                  /\ snowflakes'[j].rotation = snowflakes[j].rotation
                  /\ snowflakes'[j].speed = snowflakes[j].speed
                  /\ snowflakes'[j].driftDirection = snowflakes[j].driftDirection
      ]_vars

\* one particle just recycled and sent left while the other is in the
\* middle of its fall and sways
C16_Witness ==
    \E i, j \in Ids :
        /\ i # j
        /\ Recycled(i)
        /\ snowflakes[i].driftDirection = "left"
        /\ snowflakes[j].driftDirection = "sway"
        /\ snowflakes[j].anim.fallRem > 0
        /\ snowflakes[j].anim.fallRem < snowflakes[j].anim.fallDur

\* C17: in the fade variant, while the effect is mounted, the completion
\* callback of the fall starts the fade to zero and sets the recycle timer,
\* and the particle is recycled only once the fade has finished: in the
\* state the recycle starts from no fade is running and the opacity is 0.
C17_FadeEndsBeforeRecycle ==
    [][ \A i \in Ids :
          LET f == snowflakes[i]
              g == snowflakes'[i]
          IN  (variant = "fade" /\ phase = "mounted" /\ phase' = "mounted") =>
                  /\ (ev'.op = "complete" /\ ev'.id = i) =>
                         /\ g.anim.fadeRem = FADE_DURATION
                         /\ g.anim.fadeFrom = f.opacity
                         /\ g.anim.timers # << >>
                         /\ g.position = f.position
                  /\ g.position.y < f.position.y =>
                         /\ ev'.op = "timer"
                         /\ f.anim.fadeRem = 0
                         /\ f.opacity = 0
      ]_vars

\* a mounted particle of the fade variant, faded out at the fade line, its
\* recycle timer due
C17_Witness ==
    \E i \in Ids :
        /\ variant = "fade"
        /\ phase = "mounted"
        /\ TimerDue(snowflakes[i])
        /\ snowflakes[i].active
        /\ snowflakes[i].anim.fadeRem = 0
        /\ snowflakes[i].opacity = 0
        /\ snowflakes[i].position.y = FallTarget(variant)

\* the sway of flake i has just been started: its first segment has all of
\* its time left
SwayStarted(i) ==
    /\ snowflakes[i].driftDirection = "sway"
    /\ snowflakes[i].anim.callbacks = 1
    /\ snowflakes[i].anim.horRem = SWAY_DURATION
    /\ snowflakes[i].anim.horFrom = snowflakes[i].position.x
    /\ snowflakes[i].anim.fallRem = snowflakes[i].anim.fallDur

\* C18 as stated: the sway of a fall cycle is two oscillations, each a move
\* to the target and the return: four segments in all.
C18_SwayTwicePerCycle ==
    \A i \in Ids :
        SwayStarted(i) => 1 + Len(snowflakes[i].anim.horNext) = 4

\* C18 amended: the sway of a fall cycle is one oscillation: a 2000 ms move
\* to a target at most 10 px from the start x and a 2000 ms return to the
\* start x, two segments in all.
C18_SwayOncePerCycle ==
    \A i \in Ids :
        SwayStarted(i) =>
            /\ 1 + Len(snowflakes[i].anim.horNext) = 2
            /\ snowflakes[i].anim.horDur = SWAY_DURATION
            /\ snowflakes[i].anim.horTo >= snowflakes[i].position.x - 10 * PosDen
            /\ snowflakes[i].anim.horTo <= snowflakes[i].position.x + 10 * PosDen
            /\ Head(snowflakes[i].anim.horNext) =
                   [to |-> snowflakes[i].position.x, dur |-> SWAY_DURATION]

\* a swaying particle of the directional variant, its sway just started by
\* a recycle
C18_Witness ==
    \E i \in Ids :
        /\ variant = "directional"
        /\ Recycled(i)
        /\ SwayStarted(i)
        /\ snowflakes[i].anim.horTo # snowflakes[i].position.x

\* C19: a particle that has just been recycled has an opacity inside the
\* band its opacity was drawn from at generation: MIN_OPACITY..MAX_OPACITY,
\* the fixed 0.5 for an extra large particle, 0.3..0.6 in the fade variant.
C19_ResetOpacityInGenerationBand ==
    \A i \in Ids :
        Recycled(i) =>
            IF variant = "fade"
                THEN /\ 30 * RandDen <= snowflakes[i].opacity
                     /\ snowflakes[i].opacity <= 60 * RandDen
            ELSE IF IsExtraLarge(snowflakes[i].size)
                THEN snowflakes[i].opacity = Den \div 2
            ELSE /\ MIN_OPACITY <= snowflakes[i].opacity
                 /\ snowflakes[i].opacity <= MAX_OPACITY

\* C20: an extra large particle has the opacity 0.5 at generation and after
\* every recycle; nothing else sets the opacity in the variants that have
\* extra large particles, so it is 0.5 in every state.
C20_ExtraLargeOpacityFixed ==
    \A i \in Ids :
        (variant # "fade" /\ ClassOf(i) = "xlarge") =>
            snowflakes[i].opacity = Den \div 2

\* the speed factor ranges the comments of the factory give per class
FactorLow(c) ==
    IF c = "small" THEN 40 * RandDen
    ELSE IF c = "medium" THEN 70 * RandDen
    ELSE IF c = "large" THEN 100 * RandDen
    ELSE 160 * RandDen

FactorHigh(c) ==
    IF c = "small" THEN 70 * RandDen
    ELSE IF c = "medium" THEN 100 * RandDen
    ELSE IF c = "large" THEN 150 * RandDen
    ELSE 200 * RandDen

\* C21: of any two generated particles the larger has a speed factor at
\* least as large as the other's, and every speed factor lies in the range
\* the comments give for the particle's class: small 0.4-0.7, medium
\* 0.7-1.0, large 1.0-1.5, extra large 1.6-2.0.
C21_SpeedFactorMonotone ==
    variant # "fade" =>
        /\ \A i, j \in Ids :
               snowflakes[i].size < snowflakes[j].size =>
                   snowflakes[i].speedFactor <= snowflakes[j].speedFactor
        /\ \A i \in Ids :
               /\ FactorLow(ClassOf(i)) <= snowflakes[i].speedFactor
               /\ snowflakes[i].speedFactor <= FactorHigh(ClassOf(i))

\* C22: the width and the height the engine uses are at least 400 and 800
\* and at least what the host reports; every generated or recycled x lies in
\* [0, width], and the target of every fall that runs is the one derived
\* from a height of at least 800 (height + 20, in the fade variant 60% of
\* the height).
C22_DimensionsFloored ==
    /\ safeWidth >= 400
    /\ safeWidth >= window.width
    /\ safeWidth \in {400, window.width}
    /\ safeHeight >= 800
    /\ safeHeight >= window.height
    /\ safeHeight \in {800, window.height}
    /\ \A i \in Ids :
           /\ (phase = "constructed" \/ Recycled(i)) =>
                  /\ 0 <= snowflakes[i].position.x
                  /\ snowflakes[i].position.x <= safeWidth * PosDen
           /\ snowflakes[i].anim.fallRem > 0 =>
                  /\ snowflakes[i].anim.fallTo =
                         IF variant = "fade" THEN (safeHeight * 6 * PosDen) \div 10
                         ELSE (safeHeight + 20) * PosDen
                  /\ snowflakes[i].anim.fallTo >=
                         IF variant = "fade" THEN 480 * PosDen ELSE 820 * PosDen

\* the host reports a window below both floors; a particle has been
\* recycled away from the left edge and falls towards 820
C22_Witness ==
    \E i \in Ids :
        /\ window.width < 400
        /\ window.height < 800
        /\ variant # "fade"
        /\ Recycled(i)
        /\ snowflakes[i].position.x > 0
        /\ snowflakes[i].anim.fallRem > 0
        /\ snowflakes[i].anim.fallTo = 820 * PosDen

C24_NoReactivation ==
    [][ /\ \A i \in Ids :
              ~snowflakes[i].active =>
                  /\ ~snowflakes'[i].active
                  /\ snowflakes'[i].position = snowflakes[i].position
                  /\ snowflakes'[i].driftDirection = snowflakes[i].driftDirection
                  /\ snowflakes'[i].animationRef = "null"
                  /\ snowflakes'[i].anim.callbacks = 0
                  /\ snowflakes'[i].anim.fallRem = 0
                  /\ snowflakes'[i].anim.horRem = 0
        /\ (ev'.op = "mount" /\ phase = "unmounted") => snowflakes' = snowflakes
      ]_vars

\* the mount effect has just run for the second time on particles that
\* fell and were recycled during the first mount
C24_Witness ==
    /\ phase = "remounted"
    /\ ev.op = "mount"
    /\ \A i \in Ids :
           /\ ~snowflakes[i].active
           /\ snowflakes[i].animationRef = "null"
           /\ snowflakes[i].position.y > 0
           /\ snowflakes[i].anim.fallRem = 0

\* C25: no step, a recycle included, changes a particle's id, size, speed,
\* rotation or elliptical flag: they stay as generated.  A recycle (the
\* particle is moved back up) leaves the particle active.
C25_RecycleKeepsShape ==
    [][ \A i \in Ids :
          /\ snowflakes'[i].id = snowflakes[i].id
          /\ snowflakes'[i].size = snowflakes[i].size
          /\ snowflakes'[i].speed = snowflakes[i].speed
          /\ snowflakes'[i].rotation = snowflakes[i].rotation
          /\ snowflakes'[i].isElliptical = snowflakes[i].isElliptical
          /\ snowflakes'[i].position.y < snowflakes[i].position.y =>
                 snowflakes'[i].active
      ]_vars

\* an elliptical, rotated particle just recycled to a new x and a new
\* opacity
C25_Witness ==
    \E i \in Ids :
        /\ Recycled(i)
        /\ snowflakes[i].isElliptical
        /\ snowflakes[i].rotation > 0
        /\ snowflakes[i].position.x = 0
        /\ snowflakes[i].position.y < (-10) * PosDen
        /\ snowflakes[i].opacity = 30 * RandDen

\* C26: every particle's speed is positive, and every cycle that has just
\* been started (by the mount effect, a completion callback or a recycle
\* timer) has a fall that starts strictly above its target and a strictly
\* positive duration.
C26_PositiveFallDuration ==
    \A i \in Ids :
        /\ snowflakes[i].speed > 0
        /\ ( /\ ev.op \in {"mount", "complete", "timer"}
             /\ ev.op # "mount" => ev.id = i
             /\ snowflakes[i].active
             /\ snowflakes[i].anim.callbacks = 1 ) =>
               /\ snowflakes[i].anim.fallDur > 0
               /\ snowflakes[i].anim.fallRem = snowflakes[i].anim.fallDur
               /\ snowflakes[i].anim.fallFrom = snowflakes[i].position.y
               /\ snowflakes[i].anim.fallFrom < snowflakes[i].anim.fallTo
               /\ snowflakes[i].anim.fallTo = FallTarget(variant)

\* the slowest kind of particle, a small one with the lowest jitter, at the
\* start of a cycle after a recycle
C26_Witness ==
    \E i \in Ids :
        /\ variant = "directional"
        /\ ClassOf(i) = "small"
        /\ snowflakes[i].speed < 2 * Den
        /\ Recycled(i)
        /\ snowflakes[i].anim.callbacks = 1
        /\ snowflakes[i].anim.fallRem = snowflakes[i].anim.fallDur
        /\ snowflakes[i].anim.fallDur > 0

\* C27: a time-of-day check of the interval that computes the weather the
\* screen already holds changes neither the weather condition nor the
\* hidden gradients and starts no crossfade.
C27_CrossfadeOnlyOnChange ==
    [][ ev'.op = "tick" =>
          LET computed == TimeWeather(getCurrentWeatherBase(host.effectWeather),
                                      IsDay(host.hour))
          IN  computed = host.weatherCondition =>
                  /\ host'.weatherCondition = host.weatherCondition
                  /\ host'.fadeCallback = host.fadeCallback
                  /\ host'.fadeRem = host.fadeRem
                  /\ host'.lastCall = host.lastCall
      ]_vars

\* C28: on the mounted screen, whenever updateGradients has been called and
\* no crossfade is running (every one started has completed or was
\* interrupted by a later call), the visible and the hidden sky and floor
\* gradients are those mapped to the weather of the most recent call and
\* the crossfade opacity is 1.
C28_GradientsSettle ==
    ( /\ host.phase = "mounted"
      /\ host.lastCall # "none"
      /\ host.fadeCallback = << >> ) =>
        /\ host.visibleFloorGradient = FloorGradientOf(host.version, host.lastCall)
        /\ host.hiddenFloorGradient = FloorGradientOf(host.version, host.lastCall)
        /\ host.visibleSkyGradient = SkyGradientOf(host.version, host.lastCall)
        /\ host.hiddenSkyGradient = SkyGradientOf(host.version, host.lastCall)
        /\ host.fadeAnim = 100
        /\ host.fadeRem = 0

\* the crossfade of a call for rainy weather, made after an earlier call
\* from outside the time check, has just ended on the mounted screen
C28_Witness ==
    /\ host.phase = "mounted"
    /\ host.version = "mapped"
    /\ host.calls = MaxCalls
    /\ host.lastCall = "rainy_day"
    /\ host.fadeCallback = << >>
    /\ ev.op = "crossfade end"
    /\ host.visibleSkyGradient = <<"#5a7799", "#4f71a7">>

\* C29: in the cloud variant the clouds are static: every cloud's offset
\* stays at 0 and no cloud timer or cloud animation exists, mounted or
\* unmounted.
C29_CloudsStatic ==
    variant = "cloud" =>
        \A c \in DOMAIN clouds :
            /\ clouds[c].moveX = 0
            /\ clouds[c].moveY = 0
            /\ clouds[c].timer = -1
            /\ clouds[c].x = NoTiming
            /\ clouds[c].y = NoTiming

\* C30: every threshold test on the size puts a generated particle into
\* the size class the factory gave it by index: the branch of the speed
\* factor, the extra-large test of the opacity at generation and at reset,
\* the size < 8 test of the elliptical flag, the size >= 8 test of the
\* shadow and the blur tier of the render.
C30_ThresholdsAgreeWithClass ==
    variant # "fade" =>
        \A i \in Ids :
            LET size == snowflakes[i].size
                class == ClassOf(i)
            IN  /\ SpeedTier(size) = class
                /\ IsExtraLarge(size) <=> class = "xlarge"
                /\ size < 8 * Den <=> class \in {"small", "medium"}
                /\ applyBlur(size) <=> class \in {"large", "xlarge"}
                /\ blurFactor(size) = BlurOfClass(class)
====
